---- MODULE Spec2Model ----
(***************************************************************************)
(* Model of piCam's main.py: the StreamingOutput frame holder (a frame     *)
(* slot guarded by a threading.Condition), the generate_frames loop run    *)
(* by one thread per /video_feed connection, the video_feed route and the  *)
(* start-up / shutdown code of __main__.                                   *)
(*                                                                         *)
(* Two start states are used.  MainInit is the state at program start      *)
(* (picam2 = None, output_stream = None).  StreamInit is the state in      *)
(* which the streaming path of generate_frames is executable: the globals  *)
(* are bound to a StreamingOutput and to a camera that is configured or    *)
(* already recording into it, which is what the guards at main.py:86 and   *)
(* main.py:153 test.                                                       *)
(*                                                                         *)
(* seen is a history variable.  The code keeps no version counter; seen[c] *)
(* records how the last return of connection c's wait relates to the       *)
(* frames StreamingOutput.write has stored since.                          *)
(***************************************************************************)
EXTENDS Integers, FiniteSets, Sequences, TLC

\* ---- bounds ----
NumClients == 2
MaxFrame == 2

Clients == 1..NumClients
Frames == 1..MaxFrame

\* the thread that calls StreamingOutput.write
Producer == 0
\* self.frame = None
None == 0

VARIABLES
    mainpc,         \* position of the main thread in __main__
    picam2,         \* global picam2: "None", "configured", "started", "closed"
    output_stream,  \* global output_stream: "None" or "StreamingOutput"
    frame,          \* output_stream.frame
    lock,           \* owner of output_stream.condition's lock: {} or {thread}
    waiters,        \* threads enqueued in output_stream.condition.wait
    ppc,            \* position of the producer inside StreamingOutput.write
    buf,            \* argument buf of the write call in progress
    pc,             \* pc[c]: position of connection c's handler / generator
    waitResult,     \* waitResult[c]: value condition.wait is returning
    cframe,         \* cframe[c]: local variable frame of generate_frames while it is live
    connected,      \* connected[c]: the client socket is still open
    seen            \* history, kept while c's loop runs: how the last return of c's
                    \* wait relates to the publishes stored so far:
                    \*   "none"    no wait of c has returned yet
                    \*   "current" no publish was stored since it returned
                    \*   "missed"  a publish was stored while c was suspended at its yield
                    \*   "stale"   a publish was stored since, at another point
                    \*   "gone"    the client has disconnected (no longer tracked)

vars == <<mainpc, picam2, output_stream, frame, lock, waiters, ppc, buf, pc,
          waitResult, cframe, connected, seen>>

\* variant of NotReady: the guard without the `picam2.started` test
NotReady_NoStartedCheck == picam2 = "None" \/ output_stream = "None"

\* `not picam2 or not output_stream or not picam2.started`
NotReady == picam2 = "None" \/ output_stream = "None" \/ picam2 # "started"

ClientInit ==
    /\ pc = [c \in Clients |-> "idle"]
    /\ waitResult = [c \in Clients |-> FALSE]
    /\ cframe = [c \in Clients |-> None]
    /\ connected = [c \in Clients |-> TRUE]
    /\ seen = [c \in Clients |-> "none"]

\* StreamingOutput.__init__
HubInit ==
    /\ frame = None
    /\ lock = {}
    /\ waiters = {}
    /\ ppc = "idle"
    /\ buf = None

\* program start: module globals, before __main__ runs
MainInit ==
    /\ mainpc = "init"
    /\ picam2 = "None"
    /\ output_stream = "None"
    /\ HubInit
    /\ ClientInit

\* a StreamingOutput bound to output_stream, the camera configured or already
\* recording into it, server running
StreamInit ==
    /\ mainpc = "serving"
    /\ picam2 \in {"configured", "started"}
    /\ output_stream = "StreamingOutput"
    /\ HubInit
    /\ ClientInit

\* ---------------- StreamingOutput.write ----------------
\* variant of WriteStore: the slot is filled once and later buffers are dropped
WriteStore_KeepsOld ==
    /\ ppc = "idle"
    /\ picam2 = "started"
    /\ output_stream = "StreamingOutput"
    /\ lock = {}
    /\ \E b \in Frames : buf' = b
    /\ frame' = IF frame = None THEN buf' ELSE frame
    /\ lock' = {Producer}
    /\ ppc' = "stored"
    /\ seen' = [c \in Clients |->
                    IF seen[c] \in {"none", "gone"} THEN seen[c]
                    ELSE IF pc[c] = "sending" \/ seen[c] = "missed" THEN "missed"
                    ELSE "stale"]
    /\ UNCHANGED <<mainpc, picam2, output_stream, waiters, pc, waitResult, cframe,
                   connected>>

\* write(buf) called by the encoder thread with any frame buf:
\* `with self.condition:` entered and `self.frame = buf`
WriteStore ==
    /\ ppc = "idle"
    /\ picam2 = "started"
    /\ output_stream = "StreamingOutput"
    /\ lock = {}
    /\ \E b \in Frames : buf' = b
    /\ frame' = buf'
    /\ lock' = {Producer}
    /\ ppc' = "stored"
    /\ seen' = [c \in Clients |->
                    IF seen[c] \in {"none", "gone"} THEN seen[c]
                    ELSE IF pc[c] = "sending" \/ seen[c] = "missed" THEN "missed"
                    ELSE "stale"]
    /\ UNCHANGED <<mainpc, picam2, output_stream, waiters, pc, waitResult, cframe,
                   connected>>

\* `self.condition.notify_all()`, then the with block releases the lock
WriteNotify ==
    /\ ppc = "stored"
    /\ buf' = None
    /\ lock' = {}
    /\ waiters' = {}
    /\ ppc' = "idle"
    /\ pc' = [c \in Clients |-> IF c \in waiters THEN "reacquire" ELSE pc[c]]
    /\ waitResult' = [c \in Clients |-> IF c \in waiters THEN TRUE ELSE waitResult[c]]
    /\ UNCHANGED <<mainpc, picam2, output_stream, frame, cframe, connected, seen>>

\* ---------------- video_feed ----------------
\* 503 when the camera is not ready, else a Response around generate_frames()
VideoFeed(c) ==
    /\ pc[c] = "idle"
    /\ mainpc = "serving"
    /\ pc' = [pc EXCEPT ![c] = IF NotReady THEN "resp503" ELSE "start"]
    /\ UNCHANGED <<mainpc, picam2, output_stream, buf, frame, lock, waiters, ppc,
                   waitResult, cframe, connected, seen>>

\* ---------------- generate_frames ----------------
\* first next() on the generator: the guard at the top of generate_frames
GenStart(c) ==
    /\ pc[c] = "start"
    /\ pc' = [pc EXCEPT ![c] = IF NotReady THEN "closed" ELSE "loop"]
    /\ UNCHANGED <<mainpc, picam2, output_stream, buf, frame, lock, waiters, ppc,
                   waitResult, cframe, connected, seen>>

\* `with output_stream.condition:` then `condition.wait(timeout=1.0)`:
\* take the lock, enqueue a waiter, release the lock and block
WaitEnter(c) ==
    /\ pc[c] = "loop"
    /\ lock = {}
    /\ waiters' = waiters \cup {c}
    /\ pc' = [pc EXCEPT ![c] = "waiting"]
    /\ UNCHANGED <<mainpc, picam2, output_stream, buf, frame, lock, ppc,
                   waitResult, cframe, connected, seen>>

\* variant of WaitTimeout: a wake-up without a notify is reported as a notify
WaitTimeout_Spurious(c) ==
    /\ pc[c] = "waiting"
    /\ c \in waiters
    /\ waiters' = waiters \ {c}
    /\ pc' = [pc EXCEPT ![c] = "reacquire"]
    /\ waitResult' = [waitResult EXCEPT ![c] = TRUE]
    /\ UNCHANGED <<mainpc, picam2, output_stream, buf, frame, lock, ppc, cframe,
                   connected, seen>>

\* the 1.0 s timeout elapses before a notify: wait will return False
WaitTimeout(c) ==
    /\ pc[c] = "waiting"
    /\ c \in waiters
    /\ waiters' = waiters \ {c}
    /\ pc' = [pc EXCEPT ![c] = "reacquire"]
    /\ waitResult' = [waitResult EXCEPT ![c] = FALSE]
    /\ UNCHANGED <<mainpc, picam2, output_stream, buf, frame, lock, ppc, cframe,
                   connected, seen>>

\* variant of Reacquire: the wait returns True without re-acquiring the lock
Reacquire_NoLock(c) ==
    /\ pc[c] = "reacquire"
    /\ waitResult[c]
    /\ pc' = [pc EXCEPT ![c] = "afterwait"]
    /\ UNCHANGED <<mainpc, picam2, output_stream, buf, frame, lock, waiters, ppc,
                   waitResult, cframe, connected, seen>>

\* a notified wait re-acquires the lock and returns True
Reacquire(c) ==
    /\ pc[c] = "reacquire"
    /\ waitResult[c]
    /\ lock = {}
    /\ lock' = {c}
    /\ pc' = [pc EXCEPT ![c] = "afterwait"]
    /\ UNCHANGED <<mainpc, picam2, output_stream, buf, frame, waiters, ppc,
                   waitResult, cframe, connected, seen>>

\* variant of TimedOut: the timeout branch without the `picam2.started` test
TimedOut_NoStopCheck(c) ==
    /\ pc[c] = "reacquire"
    /\ ~waitResult[c]
    /\ lock = {}
    /\ pc' = [pc EXCEPT ![c] = "loop"]
    /\ seen' = [seen EXCEPT ![c] = IF FALSE THEN "none"
                                 ELSE IF seen[c] # "none" THEN seen[c]
                                 ELSE IF frame = None THEN "current" ELSE "stale"]
    /\ UNCHANGED <<mainpc, picam2, output_stream, buf, frame, lock, waiters, ppc,
                   waitResult, cframe, connected>>

\* variant of TimedOut: the timeout branch breaks whether or not the camera runs
TimedOut_Breaks(c) ==
    /\ pc[c] = "reacquire"
    /\ ~waitResult[c]
    /\ lock = {}
    /\ pc' = [pc EXCEPT ![c] = "closed"]
    /\ seen' = [seen EXCEPT ![c] = "none"]
    /\ UNCHANGED <<mainpc, picam2, output_stream, buf, frame, lock, waiters, ppc,
                   waitResult, cframe, connected>>

\* a timed-out wait re-acquires the lock and returns False: break if the camera
\* stopped, else continue; either way the with block releases the lock
TimedOut(c) ==
    /\ pc[c] = "reacquire"
    /\ ~waitResult[c]
    /\ lock = {}
    /\ pc' = [pc EXCEPT ![c] = IF picam2 # "started" THEN "closed" ELSE "loop"]
    /\ seen' = [seen EXCEPT ![c] = IF picam2 # "started" THEN "none"
                                 ELSE IF seen[c] # "none" THEN seen[c]
                                 ELSE IF frame = None THEN "current" ELSE "stale"]
    /\ UNCHANGED <<mainpc, picam2, output_stream, buf, frame, lock, waiters, ppc,
                   waitResult, cframe, connected>>

\* variant of Capture: the yield placed inside the with block, lock kept
Capture_HoldsLock(c) ==
    /\ pc[c] = "afterwait"
    /\ waitResult[c]
    /\ pc' = [pc EXCEPT ![c] = "sending"]
    /\ waitResult' = [waitResult EXCEPT ![c] = FALSE]
    /\ \E r \in Frames : cframe' = [cframe EXCEPT ![c] = r]
    /\ seen' = [seen EXCEPT ![c] = IF connected[c] THEN "current" ELSE "gone"]
    /\ UNCHANGED <<mainpc, picam2, output_stream, buf, frame, lock, waiters, ppc,
                   connected>>

\* `frame = picam2.capture_array()` returns a truthy frame, the with block ends,
\* `if frame: yield chunk`: the generator is suspended and the server writes the
\* chunk.  The frame is what the camera returns, not output_stream.frame.
Capture(c) ==
    /\ pc[c] = "afterwait"
    /\ waitResult[c]
    /\ lock' = {}
    /\ pc' = [pc EXCEPT ![c] = "sending"]
    /\ waitResult' = [waitResult EXCEPT ![c] = FALSE]
    /\ \E r \in Frames : cframe' = [cframe EXCEPT ![c] = r]
    /\ seen' = [seen EXCEPT ![c] = IF connected[c] THEN "current" ELSE "gone"]
    /\ UNCHANGED <<mainpc, picam2, output_stream, buf, frame, waiters, ppc,
                   connected>>

\* variant of CaptureRaise: the handler logs and continues with the next iteration
CaptureRaise_Retries(c) ==
    /\ pc[c] = "afterwait"
    /\ waitResult[c]
    /\ lock' = {}
    /\ pc' = [pc EXCEPT ![c] = "loop"]
    /\ waitResult' = [waitResult EXCEPT ![c] = FALSE]
    /\ UNCHANGED <<mainpc, picam2, output_stream, buf, frame, waiters, ppc, cframe,
                   connected, seen>>

\* capture_array, `if frame:` or building the chunk raises:
\* the with block releases the lock, `except Exception` logs and breaks
CaptureRaise(c) ==
    /\ pc[c] = "afterwait"
    /\ waitResult[c]
    /\ lock' = {}
    /\ pc' = [pc EXCEPT ![c] = "closed"]
    /\ waitResult' = [waitResult EXCEPT ![c] = FALSE]
    /\ seen' = [seen EXCEPT ![c] = "none"]
    /\ UNCHANGED <<mainpc, picam2, output_stream, buf, frame, waiters, ppc, cframe,
                   connected>>

\* capture_array returns None, the with block ends, `else:` branch: break if the
\* camera stopped, else time.sleep(0.01)
Skip(c) ==
    /\ pc[c] = "afterwait"
    /\ waitResult[c]
    /\ lock' = {}
    /\ pc' = [pc EXCEPT ![c] = IF picam2 # "started" THEN "closed" ELSE "sleeping"]
    /\ waitResult' = [waitResult EXCEPT ![c] = FALSE]
    /\ seen' = [seen EXCEPT ![c] = IF picam2 # "started" THEN "none" ELSE IF connected[c] THEN "current" ELSE "gone"]
    /\ UNCHANGED <<mainpc, picam2, output_stream, buf, frame, waiters, ppc, cframe,
                   connected>>

\* time.sleep(0.01) returns, next iteration
Sleep(c) ==
    /\ pc[c] = "sleeping"
    /\ pc' = [pc EXCEPT ![c] = "loop"]
    /\ UNCHANGED <<mainpc, picam2, output_stream, buf, frame, lock, waiters, ppc,
                   waitResult, cframe, connected, seen>>

\* variant of SendOk: the next iteration reads a frame without waiting first
SendOk_NoWait(c) ==
    /\ pc[c] = "sending"
    /\ connected[c]
    /\ lock = {}
    /\ lock' = {c}
    /\ pc' = [pc EXCEPT ![c] = "afterwait"]
    /\ waitResult' = [waitResult EXCEPT ![c] = TRUE]
    /\ cframe' = [cframe EXCEPT ![c] = None]
    /\ UNCHANGED <<mainpc, picam2, output_stream, buf, frame, waiters, ppc,
                   connected, seen>>

\* the server wrote the chunk to the client and resumes the generator
SendOk(c) ==
    /\ pc[c] = "sending"
    /\ connected[c]
    /\ pc' = [pc EXCEPT ![c] = "loop"]
    /\ cframe' = [cframe EXCEPT ![c] = None]
    /\ UNCHANGED <<mainpc, picam2, output_stream, buf, frame, lock, waiters, ppc,
                   waitResult, connected, seen>>

\* variant of SendFail: the failed connection's handler stops the camera
SendFail_StopsCamera(c) ==
    /\ pc[c] = "sending"
    /\ ~connected[c]
    /\ picam2' = "closed"
    /\ pc' = [pc EXCEPT ![c] = "closed"]
    /\ cframe' = [cframe EXCEPT ![c] = None]
    /\ seen' = [seen EXCEPT ![c] = "none"]
    /\ UNCHANGED <<mainpc, output_stream, buf, frame, lock, waiters, ppc,
                   waitResult, connected>>

\* variant of SendFail: the failed write is swallowed and the loop goes on
SendFail_Retries(c) ==
    /\ pc[c] = "sending"
    /\ ~connected[c]
    /\ pc' = [pc EXCEPT ![c] = "loop"]
    /\ cframe' = [cframe EXCEPT ![c] = None]
    /\ UNCHANGED <<mainpc, picam2, output_stream, buf, frame, lock, waiters, ppc,
                   waitResult, connected, seen>>

\* the write to the client failed: the server closes the generator at its yield
SendFail(c) ==
    /\ pc[c] = "sending"
    /\ ~connected[c]
    /\ pc' = [pc EXCEPT ![c] = "closed"]
    /\ cframe' = [cframe EXCEPT ![c] = None]
    /\ seen' = [seen EXCEPT ![c] = "none"]
    /\ UNCHANGED <<mainpc, picam2, output_stream, buf, frame, lock, waiters, ppc,
                   waitResult, connected>>

\* the client closes its end of a streaming connection
Disconnect(c) ==
    /\ connected[c]
    /\ pc[c] \in {"waiting", "sending"}
    /\ connected' = [connected EXCEPT ![c] = FALSE]
    /\ seen' = [seen EXCEPT ![c] = "gone"]
    /\ UNCHANGED <<mainpc, picam2, output_stream, buf, frame, lock, waiters, ppc,
                   pc, waitResult, cframe>>

\* ---------------- __main__ ----------------
\* variant of InitOk: the commented-out lines are active, the output is created
\* and the recording is started
InitOk_StartsRecording ==
    /\ mainpc = "init"
    /\ mainpc' = "serving"
    /\ picam2' = "started"
    /\ output_stream' = "StreamingOutput"
    /\ UNCHANGED <<buf, frame, lock, waiters, ppc, pc, waitResult, cframe,
                   connected, seen>>

\* initialize_camera_and_start_streaming returns True: camera created and
\* configured, no output assigned, no recording started; app.run starts
InitOk ==
    /\ mainpc = "init"
    /\ mainpc' = "serving"
    /\ picam2' = "configured"
    /\ UNCHANGED <<output_stream, buf, frame, lock, waiters, ppc, pc, waitResult,
                   cframe, connected, seen>>

\* initialize_camera_and_start_streaming catches an exception and returns False
InitFail ==
    /\ mainpc = "init"
    /\ mainpc' = "terminated"
    /\ picam2' = "None"
    /\ output_stream' = "None"
    /\ UNCHANGED <<buf, frame, lock, waiters, ppc, pc, waitResult, cframe,
                   connected, seen>>

\* app.run ends (KeyboardInterrupt or error); the finally block stops the
\* recording if started and closes the camera
Shutdown ==
    /\ mainpc = "serving"
    /\ mainpc' = "terminated"
    /\ picam2' = IF picam2 = "None" THEN "None" ELSE "closed"
    /\ UNCHANGED <<output_stream, buf, frame, lock, waiters, ppc, pc, waitResult,
                   cframe, connected, seen>>

\* ---------------- specifications ----------------
ProducerStep == WriteStore \/ WriteNotify

ClientStep(c) ==
    \/ VideoFeed(c) \/ GenStart(c) \/ WaitEnter(c)
    \/ WaitTimeout(c) \/ Reacquire(c) \/ TimedOut(c) \/ Capture(c)
    \/ CaptureRaise(c) \/ Skip(c) \/ Sleep(c)
    \/ SendOk(c) \/ SendFail(c) \/ Disconnect(c)

Next ==
    \/ ProducerStep
    \/ \E c \in Clients : ClientStep(c)
    \/ Shutdown

\* the streaming path: a camera recording into a StreamingOutput
Spec == StreamInit /\ [][Next]_vars

\* the scheduler runs every thread; the wait's timer expires; a socket write
\* returns or fails; a write call in progress completes
ConsumerRun(c) ==
    \/ GenStart(c) \/ WaitEnter(c) \/ WaitTimeout(c) \/ Reacquire(c)
    \/ TimedOut(c) \/ Capture(c) \/ CaptureRaise(c) \/ Skip(c)
    \/ Sleep(c) \/ SendOk(c) \/ SendFail(c)

FairSpec ==
    /\ StreamInit /\ [][Next]_vars
    /\ \A c \in Clients : WF_vars(ConsumerRun(c))
    /\ WF_vars(WriteNotify)

\* the whole program: the runs from program start (MainInit, where
\* output_stream is None) next to the runs of the streaming path (StreamInit)
MainNext == InitOk \/ InitFail \/ Next

MainSpec == (MainInit \/ StreamInit) /\ [][MainNext]_vars

TypeOK ==
    /\ mainpc \in {"init", "serving", "terminated"}
    /\ picam2 \in {"None", "configured", "started", "closed"}
    /\ output_stream \in {"None", "StreamingOutput"}
    /\ frame \in Frames \cup {None}
    /\ lock \subseteq Clients \cup {Producer}
    /\ Cardinality(lock) <= 1
    /\ waiters \subseteq Clients
    /\ ppc \in {"idle", "stored"}
    /\ buf \in Frames \cup {None}
    /\ pc \in [Clients -> {"idle", "resp503", "start", "loop", "waiting", "reacquire",
                           "afterwait", "sending", "sleeping", "closed"}]
    /\ waitResult \in [Clients -> BOOLEAN]
    /\ cframe \in [Clients -> Frames \cup {None}]
    /\ connected \in [Clients -> BOOLEAN]
    /\ seen \in [Clients -> {"none", "current", "missed", "stale", "gone"}]

\* ---------------- properties ----------------
\* c holds the frame its wait returned and no publish was stored since
Current(c) == pc[c] = "sending" /\ seen[c] = "current"

\* C1: snapshot consistency: the frame a consumer got from its wait at version
\* N (and sends) is the bytes stored by the N-th publish, i.e. the hub's frame
\* slot as long as no later publish was stored.
C1_SnapshotConsistency ==
    \A c \in Clients : Current(c) => cframe[c] = frame

\* C2: frame-drop tolerance: after publishes that were stored while c was
\* suspended at its yield (Sending), c's next wait returns a frame: it does
\* not return empty-handed on its timeout.
C2_FrameDropTolerance ==
    \A c \in Clients :
        (seen[c] = "missed" /\ pc[c] = "reacquire") => waitResult[c]

\* C3: no lost wakeup: a consumer whose wait has returned before is never
\* left blocked in the wait while a completed publish it has not seen exists.
C3_NoLostWakeup ==
    \A c \in Clients :
        (pc[c] = "waiting" /\ c \in waiters /\ ppc = "idle" /\ seen[c] # "none")
            => seen[c] = "current"

\* C4: a new connection whose first wait starts after a frame was published
\* gets that frame from the first wait: it is never blocked in its first wait
\* while a completed publish exists.
C4_FirstFrameImmediately ==
    \A c \in Clients :
        (pc[c] = "waiting" /\ c \in waiters /\ ppc = "idle" /\ seen[c] = "none")
            => frame = None

\* C5: no delivery without a publish: a wait hands a frame to the consumer
\* only if a publish was stored since its wait last returned; a wait that
\* timed out hands over no frame and nothing is sent; a chunk is sent only
\* with a frame handed over by a wait.
C5_NoDeliveryWithoutPublish ==
    [][\A c \in Clients :
        /\ (pc'[c] = "sending" /\ pc[c] # "sending")
              => /\ pc[c] = "afterwait" /\ waitResult[c] /\ cframe'[c] # None
                 /\ seen[c] \in {"stale", "missed", "gone"}
                       \/ (seen[c] = "none" /\ frame # None)
        /\ (pc[c] = "reacquire" /\ ~waitResult[c] /\ pc'[c] # pc[c])
              => (pc'[c] \in {"loop", "closed"} /\ cframe'[c] = None)
        /\ (pc[c] = "reacquire" /\ pc'[c] = "afterwait")
              => (waitResult[c] /\ seen[c] # "current")]_vars

\* c got a frame, nothing was published since, and its next wait timed out
C5_Witness ==
    \E c \in Clients :
        /\ frame # None /\ seen[c] = "current"
        /\ pc[c] = "reacquire" /\ ~waitResult[c]

\* C6: shutdown releases all waiters: once the camera has been stopped every
\* consumer loop, in particular each of the K loops blocked in the wait,
\* reaches its end, with no further publish needed.
C6_ShutdownReleasesWaiters ==
    (mainpc = "terminated") ~>
        (\A c \in Clients : pc[c] \in {"idle", "resp503", "closed"})

\* all K consumers are blocked in the wait when the camera has been stopped
C6_Witness ==
    /\ mainpc = "terminated" /\ picam2 = "closed"
    /\ waiters = Clients /\ ppc = "idle"

C8_Isolation ==
    [][\A a \in Clients : (pc[a] = "sending" /\ pc'[a] = "closed") =>
          /\ <<frame, lock, waiters, ppc, picam2, output_stream>>' =
             <<frame, lock, waiters, ppc, picam2, output_stream>>
          /\ a \notin lock /\ a \notin waiters
          /\ \A b \in Clients \ {a} :
                <<pc[b], waitResult[b], cframe[b], seen[b], connected[b]>>' =
                <<pc[b], waitResult[b], cframe[b], seen[b], connected[b]>>]_vars

\* a's write failed and ended its loop; b is sending the frame of a later publish
C8_Witness ==
    \E a, b \in Clients :
        /\ a # b /\ pc[a] = "closed" /\ ~connected[a]
        /\ pc[b] = "sending" /\ connected[b] /\ seen[b] = "current"

\* C9: version monotonicity / equal versions imply identical bytes: two
\* consumers holding frames they got at the same publish count hold the same
\* bytes.
C9_EqualVersionsEqualBytes ==
    \A c, d \in Clients : (Current(c) /\ Current(d)) => cframe[c] = cframe[d]

\* C10: a consumer at its yield (Sending) holds neither the hub lock nor a
\* place in the wait queue, so the producer's write and the other consumers
\* are not blocked by it.
C10_SlowConsumerHoldsNothing ==
    \A c \in Clients :
        pc[c] \in {"sending", "sleeping"} => (c \notin lock /\ c \notin waiters)

\* while c is stalled at its yield a publish was stored and another consumer
\* woke up and is sending a later frame
C10_Witness ==
    \E c, d \in Clients :
        /\ c # d /\ pc[c] = "sending" /\ seen[c] = "missed"
        /\ pc[d] = "sending" /\ seen[d] = "current"

\* C11: publish wakes every waiter: the notify_all of a write takes every
\* consumer then blocked in the wait out of the wait with a True result and
\* leaves nobody waiting; a consumer woken this way whose client is connected
\* and whose camera is running then sends a frame, and that frame is the one
\* the write stored (or a later one), i.e. the hub's frame while it holds the lock.
C11_PublishWakesEveryWaiter ==
    [][/\ (ppc = "stored" /\ ppc' = "idle") =>
              /\ waiters' = {}
              /\ \A c \in waiters : pc'[c] = "reacquire" /\ waitResult'[c]
       /\ \A c \in Clients :
              (/\ pc[c] = "afterwait" /\ pc'[c] # "afterwait"
               /\ connected[c] /\ picam2 = "started")
                  => (pc'[c] = "sending" /\ cframe'[c] = frame)]_vars

InLoop(c) ==
    pc[c] \in {"loop", "waiting", "reacquire", "afterwait", "sending", "sleeping"}

C14_CancellationWithoutFrames ==
    \A c \in Clients :
        (~connected[c] /\ pc[c] = "waiting") ~> (pc[c] = "closed" \/ ppc = "stored")

\* the state of connection c in terms of Idle / Waiting / Sending / Closed:
\* Waiting covers the loop from its top to the frame read, and the 0.01 s pause
Phase(c) ==
    IF pc[c] \in {"idle", "start"} THEN "Idle"
    ELSE IF pc[c] = "sending" THEN "Sending"
    ELSE IF pc[c] \in {"closed", "resp503"} THEN "Closed"
    ELSE "Waiting"

C16_MutualExclusion ==
    /\ [](/\ ppc = "stored" => lock = {Producer}
          /\ \A c \in Clients : pc[c] = "afterwait" => lock = {c}
          /\ ~(ppc = "stored" /\ \E c \in Clients : pc[c] = "afterwait"))
    /\ [][/\ frame' # frame =>
                (ppc = "idle" /\ ppc' = "stored" /\ lock = {} /\ lock' = {Producer})
          /\ \A c \in Clients :
                cframe'[c] \notin {cframe[c], None} => lock = {c}]_vars

\* the producer is inside write, between the store and the notify, while one
\* consumer woken by the previous write waits to re-acquire the lock and
\* another is at the top of its loop waiting to enter the with block
C16_Witness ==
    /\ ppc = "stored"
    /\ \E c, d \in Clients :
          /\ pc[c] = "reacquire" /\ waitResult[c]
          /\ pc[d] = "loop"

\* C17: single-slot overwrite: the hub stores one frame; from the store of
\* write(buf) until write returns the slot holds exactly buf, whatever it held
\* before, and between two writes nothing changes the slot, whatever the
\* consumers do.
C17_SingleSlotOverwrite ==
    /\ [](/\ frame \in Frames \cup {None}
          /\ ppc = "stored" => frame = buf)
    /\ [][/\ (ppc = "stored" /\ ppc' = "idle") => frame' = buf
          /\ (ppc' = ppc) => frame' = frame]_vars

\* a second write with another buffer has stored its frame while a consumer
\* is still sending the frame it got at the first write
C17_Witness ==
    /\ ppc = "stored" /\ frame = buf
    /\ \E c \in Clients : pc[c] = "sending" /\ seen[c] = "missed" /\ cframe[c] # frame

\* C18: no polling: a consumer loop is never suspended in a sleep; between
\* leaving one wait and entering the next it takes no sleep-and-retry step.
C18_NoPolling ==
    \A c \in Clients : pc[c] # "sleeping"

====
